---- MODULE Spec2Model ----
(***************************************************************************)
(* linescore: the classification-based scoring engine.                     *)
(*                                                                         *)
(*   - parse_judgment_json  (linescore/backends/__init__.py)               *)
(*   - the backends' complete()  (linescore/backends/*.py)                 *)
(*   - score() and its thread pool  (linescore/scorer.py)                  *)
(*   - _build_result, the aggregator  (linescore/scorer.py)                *)
(*   - LlamaCppBackend.complete under concurrent callers                   *)
(*   - FileToFolderCheck.extract  (linescore/checks/file_to_folder.py)     *)
(*                                                                         *)
(* Numbers that are floats in the source (confidence) are integers in      *)
(* hundredths here: 0.9 is 90.                                             *)
(***************************************************************************)
EXTENDS Integers, Sequences, FiniteSets, TLC

VARIABLES
    pText,      \* parse_judgment_json: the text argument
    pOut,       \* parse_judgment_json: <<>> before the call, <<outcome>> after
    bKind,      \* complete(): which backend class
    bEvent,     \* complete(): what the transport under it does
    bPrompt,    \* complete(): len(prompt)
    bText,      \* complete(): the text the transport yields when it succeeds
    bOut,       \* complete(): <<>> before the call, <<outcome>> after
    pc,         \* score(): "start", "pool" (inside the with block), "drain"
                \*   (an exception is leaving the with block), "done"
    extracted,  \* score(): what check.extract(target) returned
    max_items,  \* score(): the sampling cap, 0 for None
    workers,    \* score(): max_workers of the pool
    on_result,  \* score(): whether a callback was supplied
    tasks,      \* score(): the task list after sampling and shuffling
    extractList,\* score(): the list object check.extract returned, as it is now
    fut,        \* per submitted task: "pending", "running" or "finished"
    resp,       \* per submitted task: <<>> or <<what backend.complete did>>
    results,    \* the pre-allocated slots: <<>> for None, <<GuessResult>>
    yielded,    \* the futures as_completed has handed to the loop
    completed,  \* score(): the counter of the loop
    calls,      \* the (completed, total) pairs the callback received, in order
    cbCount,    \* per submitted task: how often the callback got its result
    cbThread,   \* per submitted task: the thread that invoked its callback
    cbRunning,  \* the tasks whose callback invocation has not returned yet
    writes,     \* per slot: how often it was assigned
    oracleCalls,\* per submitted task: how often backend.complete was called
    outcome,    \* how score() ended
    ret,        \* <<>> or <<the ScoreResult score() returned>>
    gTasks,     \* _build_result: the tasks argument
    gResults,   \* _build_result: the guess_results argument
    gOut,       \* _build_result: <<>> before the call, <<outcome>> after
    lPc,        \* LlamaCppBackend.complete, per calling thread: "idle",
                \*   "called", "waiting", "inference", "done"
    lPrompt,    \* per calling thread: len(prompt)
    lLock,      \* self._lock: 0 when free, else the thread that holds it
    lHandle,    \* self._llm: 0 when at rest, else the caller whose request
                \*   it is evaluating
    lOut,       \* per calling thread: <<>> or <<how its call ended>>
    fsDirs,     \* the directory tree under the target: its folders
    fsFiles,    \* the directory tree under the target: its files
    fTasks,     \* FileToFolderCheck.extract: <<>> or <<the tasks returned>>
    sSource,    \* LineToFunctionCheck.extract: the source code it is given
    sOut        \* LineToFunctionCheck.extract: <<>> or <<how the call ended>>

parseVars == <<pText, pOut>>
backendVars == <<bKind, bEvent, bPrompt, bText, bOut>>
inputVars == <<extracted, max_items, workers, on_result>>
taskVars == <<tasks, extractList>>
poolVars == <<fut, resp, oracleCalls>>
loopVars == <<results, yielded, completed, calls, cbCount, cbThread, cbRunning, writes>>
scoreVars == <<pc, inputVars, taskVars, poolVars, loopVars, outcome, ret>>
buildVars == <<gTasks, gResults, gOut>>
llamaVars == <<lPc, lPrompt, lLock, lHandle, lOut>>
folderVars == <<fsDirs, fsFiles, fTasks>>
linesVars == <<sSource, sOut>>
auxVars == <<buildVars, llamaVars, folderVars, linesVars>>
vars == <<parseVars, backendVars, scoreVars, auxVars>>

(***************************************************************************)
(* JSON values and oracle texts.                                           *)
(*                                                                         *)
(* A text is laid out as  [think block] [fence] body [fence]  and a body   *)
(* is empty, not JSON at all, or the JSON encoding of one value.  A value  *)
(* is a scalar (ty, s, n) or an object with some of the keys "result",     *)
(* "guess", "confidence".  The value of "result" is kept as a sequence of  *)
(* at most one element so that texts nest to a finite depth.               *)
(***************************************************************************)
Prim(ty, s, n) == [ty |-> ty, s |-> s, n |-> n]
Absent == Prim("absent", "", 0)
Null == Prim("null", "", 0)
Num(n) == Prim("num", "", n)
Str(s) == Prim("str", s, 0)
List == Prim("list", "", 0)

JVal(ty, s, n, guess, conf, result) ==
    [ty |-> ty, s |-> s, n |-> n, guess |-> guess, conf |-> conf, result |-> result]
Scalar(p) == JVal(p.ty, p.s, p.n, Absent, Absent, <<>>)
Obj(guess, conf, result) == JVal("obj", "", 0, guess, conf, result)
EmptyObj == Obj(Absent, Absent, <<>>)

Body(kind, j) == [kind |-> kind, j |-> j]
Text(think, pre, suf, body) == [think |-> think, pre |-> pre, suf |-> suf, body |-> body]
Plain(body) == Text("none", "none", FALSE, body)
EmptyText == Plain(Body("empty", EmptyObj))
JsonText(j) == Plain(Body("json", j))

\* The value of a "result" key: a string holding a text, or a non-string.
ResStr(t) == <<[ty |-> "str", txt |-> <<t>>]>>
ResNum == <<[ty |-> "num", txt |-> <<>>]>>

(***************************************************************************)
(* parse_judgment_json and its helpers.                                    *)
(***************************************************************************)
\* re.sub(r"<think>.*?</think>", "", text, flags=re.DOTALL).strip(): the
\* substitution runs on the raw text, so a closed block inside the string
\* value of "result" is removed as well; an unclosed block stays.
StripBlock(t) == [t EXCEPT !.think = IF @ = "closed" THEN "none" ELSE @]

_strip_thinking(t) ==
    LET o == StripBlock(t)
        r == o.body.j.result
    IN  IF o.body.kind = "json" /\ r # <<>> /\ r[1].txt # <<>>
        THEN [o EXCEPT !.body.j.result = ResStr(StripBlock(r[1].txt[1]))]
        ELSE o

\* json.loads: the text must be exactly one JSON value.
JsonLoads(t) ==
    IF t.think = "none" /\ t.pre = "none" /\ ~t.suf /\ t.body.kind = "json"
    THEN [ok |-> TRUE, v |-> t.body.j]
    ELSE [ok |-> FALSE, v |-> EmptyObj]

\* inner_text.removeprefix("```json").removesuffix("```").strip(): the
\* prefix goes only when the text starts with it, the suffix only when the
\* text ends with it; a fence without the json tag is no prefix.
FenceStrip(t) ==
    [t EXCEPT !.pre = IF t.think = "none" /\ @ = "json" THEN "none" ELSE @,
              !.suf = FALSE]

\* An outcome of a call: a JudgmentResult, or an exception that leaves it.
Judgment(guess, conf) == [kind |-> "ok", guess |-> guess, conf |-> conf, exc |-> ""]
Raise(exc) == [kind |-> "raise", guess |-> Str(""), conf |-> 0, exc |-> exc]
EmptyJudgmentHalfSure == Judgment(Str(""), 50)

EmptyJudgment == Judgment(Str(""), 0)

\* float(x): a number, a bool or a numeric string converts; another string
\* is a ValueError, anything else a TypeError.
NumericStrings == {"0.5"}
FloatOf(p) ==
    CASE p.ty = "num" -> [ok |-> TRUE, n |-> p.n, exc |-> ""]
      [] p.ty = "bool" -> [ok |-> TRUE, n |-> p.n * 100, exc |-> ""]
      [] p.ty = "str" /\ p.s \in NumericStrings -> [ok |-> TRUE, n |-> 50, exc |-> ""]
      [] p.ty = "str" -> [ok |-> FALSE, n |-> 0, exc |-> "ValueError"]
      [] OTHER -> [ok |-> FALSE, n |-> 0, exc |-> "TypeError"]

\* d.get(key, default) on a dict.
GetGuess(j) == IF j.guess = Absent THEN Str("") ELSE j.guess
GetConfidence(j) == IF j.conf = Absent THEN Num(0) ELSE j.conf

\* JudgmentResult(guess=d.get("guess", ""), confidence=float(d.get("confidence", 0.0)))
\* d is whatever json.loads returned: .get on a non-dict is an AttributeError.
FromDict(j) ==
    IF j.ty # "obj" THEN Raise("AttributeError")
    ELSE LET f == FloatOf(GetConfidence(j))
         IN  IF f.ok THEN Judgment(GetGuess(j), f.n) ELSE Raise(f.exc)

\* key in outer: membership in a dict, containment in a str or a list, a
\* TypeError on a number, a bool or null.
HasKeyGuessFirst(j, key) ==
    CASE j.ty = "obj" ->
            IF key = "result" THEN j.result # <<>> /\ j.guess = Absent ELSE j.guess # Absent
      [] j.ty = "str" -> j.s = key
      [] OTHER -> FALSE

HasKey(j, key) ==
    CASE j.ty = "obj" -> IF key = "result" THEN j.result # <<>> ELSE j.guess # Absent
      [] j.ty = "str" -> j.s = key
      [] OTHER -> FALSE

\* The second try block: except (json.JSONDecodeError, ValueError, TypeError).
InnerParse(t) ==
    LET l == JsonLoads(t)
        o == IF l.ok THEN FromDict(l.v) ELSE Raise("JSONDecodeError")
    IN  IF o.kind = "raise" /\ o.exc \in {"JSONDecodeError", "ValueError", "TypeError"}
        THEN EmptyJudgment
        ELSE o

parse_judgment_json(raw) ==
    LET text == _strip_thinking(raw)
        l == JsonLoads(text)
        outer == IF l.ok THEN l.v ELSE EmptyObj
    IN  IF outer.ty \in {"num", "bool", "null"} THEN Raise("TypeError")
        ELSE IF HasKey(outer, "result")
        THEN IF outer.ty # "obj" THEN Raise("TypeError")
             ELSE IF outer.result[1].ty # "str" THEN Raise("AttributeError")
             ELSE InnerParse(FenceStrip(outer.result[1].txt[1]))
        ELSE IF HasKey(outer, "guess")
        THEN FromDict(outer)
        ELSE InnerParse(FenceStrip(text))

(***************************************************************************)
(* The texts the parser is checked on.                                     *)
(***************************************************************************)
Categories == {"", "a", "b"}

GuessValues == {Absent, Null, Num(5)} \cup {Str(c) : c \in Categories}
ConfValues == {Absent, Null, Num(90), Str("0.5"), Str("high"), Prim("bool", "", 1)}
ScalarValues == {Scalar(Num(5)), Scalar(Null), Scalar(List), Scalar(Prim("bool", "", 1)),
                 Scalar(Str("abc")), Scalar(Str("result")), Scalar(Str("guess"))}

FlatObjects == {Obj(g, c, <<>>) : g \in GuessValues, c \in ConfValues}
FlatBodies == {Body("empty", EmptyObj), Body("garbage", EmptyObj)}
                  \cup {Body("json", j) : j \in FlatObjects \cup ScalarValues}
Thinks == {"none", "closed", "open"}
Fences == {"none", "json", "plain"}

\* Texts that can be the string value of a "result" key.
InnerTexts ==
    {Text(th, pre, suf, b) :
        th \in {"none", "closed"}, pre \in {"none", "json"}, suf \in BOOLEAN, b \in FlatBodies}

WrappedObjects ==
    {Obj(g, Absent, ResStr(t)) : g \in {Absent, Str("a")}, t \in InnerTexts}
        \cup {Obj(g, Absent, ResNum) : g \in {Absent, Str("a")}}

OuterBodies == FlatBodies \cup {Body("json", j) : j \in WrappedObjects}

Texts ==
    {Text(th, pre, suf, b) :
        th \in Thinks, pre \in Fences, suf \in BOOLEAN, b \in OuterBodies}

(***************************************************************************)
(* The parser as a one-call machine.                                       *)
(***************************************************************************)
BackendIdle ==
    /\ bKind = "none"
    /\ bEvent = "ok"
    /\ bPrompt = 0
    /\ bText = EmptyText
    /\ bOut = <<>>

NoOutcome == [kind |-> "none", exc |-> "", msg |-> ""]

ScoreIdle ==
    /\ pc = "idle"
    /\ extracted = <<>>
    /\ extractList = <<>>
    /\ max_items = 0
    /\ workers = 0
    /\ on_result = FALSE
    /\ tasks = <<>>
    /\ fut = <<>>
    /\ resp = <<>>
    /\ results = <<>>
    /\ yielded = {}
    /\ completed = 0
    /\ calls = <<>>
    /\ cbCount = <<>>
    /\ cbThread = <<>>
    /\ cbRunning = {}
    /\ writes = <<>>
    /\ oracleCalls = <<>>
    /\ outcome = NoOutcome
    /\ ret = <<>>

BuildIdle ==
    /\ gTasks = <<>>
    /\ gResults = <<>>
    /\ gOut = <<>>

LlamaIdle ==
    /\ lPc = <<>>
    /\ lPrompt = <<>>
    /\ lLock = 0
    /\ lHandle = 0
    /\ lOut = <<>>

FolderIdle ==
    /\ fsDirs = {}
    /\ fsFiles = {}
    /\ fTasks = <<>>

LinesIdle ==
    /\ sSource = [parses |-> TRUE, defs |-> <<>>]
    /\ sOut = <<>>

AuxIdle == BuildIdle /\ LlamaIdle /\ FolderIdle /\ LinesIdle

InitParse ==
    /\ pText \in Texts
    /\ pOut = <<>>
    /\ BackendIdle
    /\ ScoreIdle
    /\ AuxIdle

Parse ==
    /\ pOut = <<>>
    /\ pOut' = <<parse_judgment_json(pText)>>
    /\ UNCHANGED <<pText, backendVars, scoreVars, auxVars>>

NextParse == Parse

SpecParse == InitParse /\ [][NextParse]_vars

(***************************************************************************)
(* The backends: complete(prompt) of each class, as a function of what     *)
(* the transport under it does.                                            *)
(***************************************************************************)
Returned(t) == [kind |-> "ok", text |-> t, exc |-> ""]
Raised(exc) == [kind |-> "raise", text |-> EmptyText, exc |-> exc]

\* subprocess.run(..., timeout=...): the process exits 0 with stdout, exits
\* nonzero, runs past the timeout, or cannot be started.
ClaudeCodeComplete(ev, stdout) ==
    CASE ev = "timeout" -> Returned(EmptyText)
      [] ev = "nonzero_exit" -> Returned(EmptyText)
      [] ev = "spawn_error" -> Raised("FileNotFoundError")
      [] OTHER -> Returned(stdout)

\* self._client.messages.create(...): the SDK returns a response or raises.
AnthropicComplete(ev, text) ==
    CASE ev = "timeout" -> Raised("APITimeoutError")
      [] ev = "connection_error" -> Raised("APIConnectionError")
      [] OTHER -> Returned(text)

\* self._client.chat.completions.create(...): as above.
GroqComplete(ev, text) ==
    CASE ev = "timeout" -> Raised("APITimeoutError")
      [] ev = "connection_error" -> Raised("APIConnectionError")
      [] OTHER -> Returned(text)

n_ctx == 8192
max_tokens == 256

\* The length guard, then create_chat_completion under the lock.
LlamaCppComplete(promptLen, ev, text) ==
    IF (promptLen \div 3) + max_tokens > n_ctx THEN Returned(EmptyText)
    ELSE IF ev = "inference_error" THEN Raised("RuntimeError")
    ELSE Returned(text)

BackendKinds == {"claude_code", "anthropic", "groq", "llamacpp"}

TransportEvents(kind) ==
    CASE kind = "claude_code" -> {"ok", "timeout", "nonzero_exit", "spawn_error"}
      [] kind = "llamacpp" -> {"ok", "inference_error"}
      [] OTHER -> {"ok", "timeout", "connection_error"}

complete(kind, promptLen, ev, text) ==
    CASE kind = "claude_code" -> ClaudeCodeComplete(ev, text)
      [] kind = "anthropic" -> AnthropicComplete(ev, text)
      [] kind = "groq" -> GroqComplete(ev, text)
      [] OTHER -> LlamaCppComplete(promptLen, ev, text)

\* Texts an oracle answers with: nothing, a direct guess, a wrapped and
\* fenced guess, a bare number, prose.
Direct(c) == JsonText(Obj(Str(c), Num(90), <<>>))
Wrapped(c) ==
    JsonText(Obj(Absent, Absent,
                 ResStr(Text("none", "json", TRUE, Body("json", Obj(Str(c), Num(90), <<>>))))))
ReplyTexts ==
    {EmptyText, Plain(Body("garbage", EmptyObj)), JsonText(Scalar(Num(5)))}
        \cup {Direct(c) : c \in Categories} \cup {Wrapped(c) : c \in Categories}

\* len(prompt) on both sides of the guard: 23810 // 3 + 256 = 8192.
PromptLens == {0, 23810, 23811}

ParseIdle ==
    /\ pText = EmptyText
    /\ pOut = <<>>

InitBackend ==
    /\ bKind \in BackendKinds
    /\ bEvent \in TransportEvents(bKind)
    /\ bPrompt \in PromptLens
    /\ bText \in ReplyTexts
    /\ bOut = <<>>
    /\ ParseIdle
    /\ ScoreIdle
    /\ AuxIdle

Complete ==
    /\ bOut = <<>>
    /\ bKind # "none"
    /\ bOut' = <<complete(bKind, bPrompt, bEvent, bText)>>
    /\ UNCHANGED <<bKind, bEvent, bPrompt, bText, parseVars, scoreVars, auxVars>>

NextBackend == Complete

SpecBackend == InitBackend /\ [][NextBackend]_vars

(***************************************************************************)
(* score(): validation, sampling, the thread pool, the as_completed loop.  *)
(***************************************************************************)
MaxTasks == 2
MaxWorkers == 2

\* ClassificationTask(item, actual, candidates); an item is named by its
\* position in the extracted list.
Task(item, actual, candidates) ==
    [item |-> item, actual |-> actual, candidates |-> candidates]

\* (actual, candidates) of the tasks a check may extract: two categories
\* offered together, a candidate list of one, an empty category id.
Shapes ==
    { <<"a", <<"a", "b">>>>, <<"a", <<"a">>>>, <<"", <<"", "a", "b">>>> }

TaskLists ==
    UNION { { [i \in 1..n |-> Task(i, sh[i][1], sh[i][2])] : sh \in [1..n -> Shapes] } :
            n \in 0..MaxTasks }

Range(f) == {f[i] : i \in DOMAIN f}

\* candidates_set: the union of every task's candidates.
CandidateUnion(ts) == UNION {Range(ts[i].candidates) : i \in DOMAIN ts}

TooFewCategoriesOffByOne(ts) == Cardinality(CandidateUnion(ts)) < 1

TooFewCategoriesNever(ts) == FALSE

TooFewCategories(ts) == Cardinality(CandidateUnion(ts)) < 2

\* if max_items and len(tasks) > max_items
Sampling(ts, cap) == cap # 0 /\ Len(ts) > cap

\* random.sample(tasks, max_items) followed by random.shuffle(tasks): any
\* ordering of any max_items distinct positions, or of all positions.
DispatchCountAll(ts, cap) == Len(ts)

DispatchCount(ts, cap) == IF Sampling(ts, cap) THEN cap ELSE Len(ts)

Arrangements(ts, k) ==
    {f \in [1..k -> DOMAIN ts] : \A i, j \in 1..k : i # j => f[i] # f[j]}

\* GuessResult(item, actual, guessed, confidence, correct, num_candidates)
CorrectIfOffered(guess, task) == guess.ty = "str" /\ guess.s \in Range(task.candidates)

Correct(guess, task) == guess = Str(task.actual)

GuessResult(task, jr) ==
    [item |-> task.item, actual |-> task.actual, guessed |-> jr.guess,
     confidence |-> jr.conf, correct |-> Correct(jr.guess, task),
     num_candidates |-> Len(task.candidates)]

NoResult == GuessResult(Task(0, "", <<>>), EmptyJudgment)

\* _score_one: the future holds a GuessResult, or the exception that
\* backend.complete or parse_judgment_json raised.
_score_one(task, reply) ==
    IF reply.kind = "raise" THEN [kind |-> "raise", exc |-> reply.exc, gr |-> NoResult]
    ELSE LET jr == parse_judgment_json(reply.text)
         IN  IF jr.kind = "raise" THEN [kind |-> "raise", exc |-> jr.exc, gr |-> NoResult]
             ELSE [kind |-> "ok", exc |-> "", gr |-> GuessResult(task, jr)]

\* What backend.complete does in a run: the replies of an API backend.
DispatchTexts == {EmptyText, Direct("a"), JsonText(Scalar(Num(5)))}
OracleOutcomes ==
    {complete("anthropic", 0, ev, t) :
        ev \in {"ok", "connection_error"}, t \in DispatchTexts}

\* ThreadPoolExecutor(max_workers=workers): a work item leaves the queue
\* only for a worker thread, and there are at most max_workers of them.
InFlight == {i \in DOMAIN fut : fut[i] = "running"}
WorkerAlwaysFree(running, limit) == TRUE

WorkerFree(running, limit) == running < limit

\* results[idx] = guess_result
SlotOfCompletion(idx, count) == count + 1

SlotOf(idx, count) == idx

(***************************************************************************)
(* _build_result.  The floats of the aggregator are exact fractions here,  *)
(* [n, d] in lowest terms with d > 0: rounding to a double is left out.    *)
(***************************************************************************)
RECURSIVE Gcd(_, _)
Gcd(a, b) == IF b = 0 THEN a ELSE Gcd(b, a % b)

Abs(x) == IF x < 0 THEN -x ELSE x

Frac(n, d) ==
    LET g == Gcd(Abs(n), Abs(d))
        sgn == IF d < 0 THEN -1 ELSE 1
    IN  [n |-> (sgn * n) \div g, d |-> (sgn * d) \div g]

Zero == Frac(0, 1)
One == Frac(1, 1)
FracAdd(x, y) == Frac(x.n * y.d + y.n * x.d, x.d * y.d)
FracSub(x, y) == Frac(x.n * y.d - y.n * x.d, x.d * y.d)
FracDiv(x, y) == Frac(x.n * y.d, x.d * y.n)

RECURSIVE FracSum(_)
FracSum(seq) == IF seq = <<>> THEN Zero ELSE FracAdd(Head(seq), FracSum(Tail(seq)))

\* sum(xs) / len(xs) if xs else 0.0
MeanNotDivided(seq) == FracSum(seq)

Mean(seq) == IF seq = <<>> THEN Zero ELSE FracDiv(FracSum(seq), Frac(Len(seq), 1))

\* A list without its repeats, in first-seen order: the  seen  set of the
\* category loop, and the insertion order of the confusion dict.
RECURSIVE FirstSeen(_, _)
FirstSeen(seq, seen) ==
    IF seq = <<>> THEN <<>>
    ELSE IF Head(seq) \in seen THEN FirstSeen(Tail(seq), seen)
    ELSE <<Head(seq)>> \o FirstSeen(Tail(seq), seen \cup {Head(seq)})

\* all_categories: the distinct  actual  values of  tasks, first seen first.
AllCategories(ts) == FirstSeen([i \in DOMAIN ts |-> ts[i].actual], {})

\* correct = sum(r.correct for r in guess_results)
CountEvery(rs) == Len(rs)

CountCorrect(rs) == Cardinality({i \in DOMAIN rs : rs[i].correct})

\* cat_results.get(cat_name, [])
CategoryResultsAll(rs, cat_name) == rs

CategoryResults(rs, cat_name) == SelectSeq(rs, LAMBDA r : r.actual = cat_name)

CategoryScore(cat_name, rs) ==
    LET ft == Len(rs)
        fc == CountCorrect(rs)
    IN  [name |-> cat_name, total |-> ft, correct |-> fc,
         score |-> IF ft > 0 THEN Frac(fc, ft) ELSE Zero,
         results |-> rs]

CategoryScores(rs, ts) ==
    LET cats == AllCategories(ts)
    IN  [j \in DOMAIN cats |-> CategoryScore(cats[j], CategoryResults(rs, cats[j]))]

\* k = r.num_candidates if r.num_candidates >= 2 else len(all_categories)
ChanceKUnion(r, ts) ==
    IF r.num_candidates >= 2 THEN r.num_candidates
    ELSE Cardinality(UNION {Range(ts[i].candidates) : i \in DOMAIN ts})

ChanceK(r, ts) ==
    IF r.num_candidates >= 2 THEN r.num_candidates ELSE Len(AllCategories(ts))

\* 1.0 / k  and  (score_i - chance) / (1.0 - chance)  divide by zero when k
\* is 0 or 1.
DividesByZero(rs, ts) == \E i \in DOMAIN rs : ChanceK(rs[i], ts) <= 1

\* chance = 1.0 / k
Chance(r, ts) == Frac(1, ChanceK(r, ts))

\* score_i = 1.0 if r.correct else 0.0
ScoreI(r) == IF r.correct THEN One ELSE Zero

\* adj_i = (score_i - chance) / (1.0 - chance)
AdjustedUnscaled(r, ts) == FracSub(ScoreI(r), Chance(r, ts))

Adjusted(r, ts) ==
    FracDiv(FracSub(ScoreI(r), Chance(r, ts)), FracSub(One, Chance(r, ts)))

\* The truth value of  r.guessed.
Truthy(p) ==
    CASE p.ty = "str" -> p.s # ""
      [] p.ty \in {"num", "bool"} -> p.n # 0
      [] p.ty = "list" -> TRUE
      [] OTHER -> FALSE

\* if not r.correct and r.guessed
Confused(r) == ~r.correct /\ Truthy(r.guessed)

\* confusion[pair] = ...  hashes the pair: a list as the guess is a TypeError.
Unhashable(rs) == \E i \in DOMAIN rs : Confused(rs[i]) /\ rs[i].guessed.ty = "list"

\* confusion.items(): the pairs in insertion order, each with its count.
Confusion(rs) ==
    LET w == SelectSeq(rs, Confused)
        pairs == [i \in DOMAIN w |-> <<w[i].actual, w[i].guessed>>]
        keys == FirstSeen(pairs, {})
    IN  [j \in DOMAIN keys |->
            [category_a |-> keys[j][1], category_b |-> keys[j][2],
             count |-> Cardinality({i \in DOMAIN pairs : pairs[i] = keys[j]})]]

\* sorted(..., key=lambda x: -x[1]): a stable sort, so an entry goes behind
\* every earlier entry whose count is at least its own.
InsertInFront(sorted, x) == <<x>> \o sorted

InsertStable(sorted, x) ==
    LET k == Cardinality({i \in DOMAIN sorted : sorted[i].count >= x.count})
    IN  SubSeq(sorted, 1, k) \o <<x>> \o SubSeq(sorted, k + 1, Len(sorted))

RECURSIVE SortedByCount(_)
SortedByCount(seq) ==
    IF seq = <<>> THEN <<>>
    ELSE InsertStable(SortedByCount(SubSeq(seq, 1, Len(seq) - 1)), seq[Len(seq)])

\* The ScoreResult, for arguments on which nothing above raises.
_build_result(rs, ts) ==
    [score |-> IF Len(rs) > 0 THEN Frac(CountCorrect(rs), Len(rs)) ELSE Zero,
     total |-> Len(rs),
     correct |-> CountCorrect(rs),
     adjusted_score |-> Mean([i \in DOMAIN rs |-> Adjusted(rs[i], ts)]),
     chance_level |-> Mean([i \in DOMAIN rs |-> Chance(rs[i], ts)]),
     num_categories |-> Cardinality(CandidateUnion(ts)),
     category_scores |-> CategoryScores(rs, ts),
     confused_pairs |-> SortedByCount(Confusion(rs)),
     results |-> rs]

\* What a call of _build_result does: the exception it raises, or  returned.
BuildRaises(rs, ts) ==
    IF DividesByZero(rs, ts) THEN "ZeroDivisionError"
    ELSE IF Unhashable(rs) THEN "TypeError"
    ELSE ""

Error(exc, msg) == [kind |-> "raised", exc |-> exc, msg |-> msg]
ReturnedResult == [kind |-> "returned", exc |-> "", msg |-> ""]

InitScore ==
    /\ pc = "start"
    /\ extracted \in TaskLists
    /\ max_items \in -1..(MaxTasks - 1)
    /\ workers \in 0..MaxWorkers
    /\ on_result \in BOOLEAN
    /\ extractList = extracted
    /\ tasks = <<>>
    /\ fut = <<>>
    /\ resp = <<>>
    /\ results = <<>>
    /\ yielded = {}
    /\ completed = 0
    /\ calls = <<>>
    /\ cbCount = <<>>
    /\ cbThread = <<>>
    /\ cbRunning = {}
    /\ writes = <<>>
    /\ oracleCalls = <<>>
    /\ outcome = NoOutcome
    /\ ret = <<>>
    /\ ParseIdle
    /\ BackendIdle
    /\ AuxIdle

Fail(err) ==
    /\ pc' = "done"
    /\ outcome' = err
    /\ UNCHANGED <<taskVars, poolVars, loopVars, ret>>

\* tasks = random.sample(tasks, max_items) binds a new list; without it
\* random.shuffle(tasks) reorders the list check.extract returned.
ListAfterShuffle(ts, cap, shuffled) == IF Sampling(ts, cap) THEN ts ELSE shuffled

\* score() up to the submission of every task to the pool.
Begin ==
    /\ pc = "start"
    /\ IF extracted = <<>>
       THEN Fail(Error("ValueError", "no_tasks"))
       ELSE IF TooFewCategories(extracted)
       THEN Fail(Error("ValueError", "few_categories"))
       ELSE IF Sampling(extracted, max_items) /\ max_items < 0
       THEN Fail(Error("ValueError", "sample_negative"))
       ELSE \E f \in Arrangements(extracted, DispatchCount(extracted, max_items)) :
               LET n == Len(f)
                   shuffled == [j \in 1..n |-> extracted[f[j]]]
               IN
               /\ extractList' = ListAfterShuffle(extracted, max_items, shuffled)
               /\ IF workers <= 0
                  THEN /\ pc' = "done"
                       /\ outcome' = Error("ValueError", "max_workers")
                       /\ UNCHANGED <<tasks, poolVars, loopVars, ret>>
                  ELSE /\ tasks' = shuffled
                       /\ fut' = [j \in 1..n |-> "pending"]
                       /\ resp' = [j \in 1..n |-> <<>>]
                       /\ oracleCalls' = [j \in 1..n |-> 0]
                       /\ results' = [j \in 1..n |-> <<>>]
                       /\ writes' = [j \in 1..n |-> 0]
                       /\ cbCount' = [j \in 1..n |-> 0]
                       /\ cbThread' = [j \in 1..n |-> "none"]
                       /\ pc' = "pool"
                       /\ UNCHANGED <<yielded, completed, calls, cbRunning, outcome, ret>>
    /\ UNCHANGED <<inputVars, parseVars, backendVars, auxVars>>

\* A worker thread takes the oldest queued work item and calls the oracle.
WorkerStart(i) ==
    /\ pc \in {"pool", "drain"}
    /\ fut[i] = "pending"
    /\ \A j \in 1..(i - 1) : fut[j] # "pending"
    /\ WorkerFree(Cardinality(InFlight), workers)
    /\ fut' = [fut EXCEPT ![i] = "running"]
    /\ oracleCalls' = [oracleCalls EXCEPT ![i] = @ + 1]
    /\ UNCHANGED <<pc, inputVars, taskVars, resp, loopVars, outcome, ret, parseVars, backendVars, auxVars>>

\* backend.complete returns or raises; the rest of _score_one follows.
WorkerFinish(i) ==
    /\ pc \in {"pool", "drain"}
    /\ fut[i] = "running"
    /\ \E o \in OracleOutcomes : resp' = [resp EXCEPT ![i] = <<o>>]
    /\ fut' = [fut EXCEPT ![i] = "finished"]
    /\ UNCHANGED <<pc, inputVars, taskVars, oracleCalls, loopVars, outcome, ret, parseVars, backendVars, auxVars>>

\* on_result(guess_result, completed, total) is a call in the body of the
\* loop, which the thread that called score() runs.
CallbackThreadWorker == "worker"

CallbackThread == "main"

\* The loop takes its next turn when the body of the last one has ended.
LoopAlwaysFree(running) == TRUE

LoopFree(running) == running = {}

\* One turn of  for future in as_completed(futures), up to the call of the
\* callback.
Collect(i) ==
    /\ pc = "pool"
    /\ LoopFree(cbRunning)
    /\ fut[i] = "finished"
    /\ i \notin yielded
    /\ yielded' = yielded \cup {i}
    /\ LET fr == _score_one(tasks[i], resp[i][1])
           slot == SlotOf(i, completed)
       IN  IF fr.kind = "raise"
           THEN /\ pc' = "drain"
                /\ outcome' = Error(fr.exc, "")
                /\ UNCHANGED <<results, completed, calls, cbCount, cbThread, cbRunning, writes>>
           ELSE /\ results' = [results EXCEPT ![slot] = <<fr.gr>>]
                /\ writes' = [writes EXCEPT ![slot] = @ + 1]
                /\ completed' = completed + 1
                /\ IF on_result
                   THEN /\ calls' = Append(calls, [completed |-> completed + 1,
                                                   total |-> Len(tasks)])
                        /\ cbCount' = [cbCount EXCEPT ![i] = @ + 1]
                        /\ cbThread' = [cbThread EXCEPT ![i] = CallbackThread]
                        /\ cbRunning' = cbRunning \cup {i}
                   ELSE UNCHANGED <<calls, cbCount, cbThread, cbRunning>>
                /\ UNCHANGED <<pc, outcome>>
    /\ UNCHANGED <<inputVars, taskVars, poolVars, ret, parseVars, backendVars, auxVars>>

\* The exception leaves the with block: shutdown(wait=True) lets the workers
\* run every queued work item first.
Unwind ==
    /\ pc = "drain"
    /\ \A i \in DOMAIN fut : fut[i] = "finished"
    /\ pc' = "done"
    /\ UNCHANGED <<inputVars, taskVars, poolVars, loopVars, outcome, ret, parseVars, backendVars, auxVars>>

\* The callback returns and the turn of the loop ends.
CallbackReturns(i) ==
    /\ pc = "pool"
    /\ i \in cbRunning
    /\ cbRunning' = cbRunning \ {i}
    /\ UNCHANGED <<results, yielded, completed, calls, cbCount, cbThread, writes>>
    /\ UNCHANGED <<pc, inputVars, taskVars, poolVars, outcome, ret, parseVars, backendVars, auxVars>>

\* return _build_result(results, tasks, check=check.name)
Return ==
    /\ pc = "pool"
    /\ yielded = DOMAIN fut
    /\ cbRunning = {}
    /\ pc' = "done"
    /\ LET rs == [i \in DOMAIN results |-> results[i][1]]
       IN  IF BuildRaises(rs, tasks) # ""
           THEN /\ outcome' = Error(BuildRaises(rs, tasks), "")
                /\ ret' = ret
           ELSE /\ outcome' = ReturnedResult
                /\ ret' = <<_build_result(rs, tasks)>>
    /\ UNCHANGED <<inputVars, taskVars, poolVars, loopVars, parseVars, backendVars, auxVars>>

Next ==
    \/ Begin
    \/ \E i \in DOMAIN fut : WorkerStart(i)
    \/ \E i \in DOMAIN fut : WorkerFinish(i)
    \/ \E i \in DOMAIN fut : Collect(i)
    \/ \E i \in DOMAIN fut : CallbackReturns(i)
    \/ Unwind
    \/ Return

Spec == InitScore /\ [][Next]_vars

(***************************************************************************)
(* _build_result as a one-call machine: the arguments score() can hand it. *)
(***************************************************************************)
MaxResults == 3

\* (actual, candidates): k = 2 twice, k = 4, k = 3, and a candidate list of
\* one, which takes the fallback for k.
BuildShapes ==
    { <<"a", <<"a", "b">>>>, <<"b", <<"a", "b">>>>,
      <<"a", <<"a", "b", "c", "d">>>>, <<"b", <<"a", "b", "c">>>>,
      <<"a", <<"a">>>> }

\* jr.guess: a category, the empty string, a JSON list.
BuildGuesses == {Str("a"), Str("b"), Str(""), List}

\* The task lists that pass the validation of score().
BuildTaskLists ==
    { ts \in UNION { { [i \in 1..n |-> Task(i, sh[i][1], sh[i][2])] :
                        sh \in [1..n -> BuildShapes] } : n \in 1..MaxResults } :
        ~TooFewCategories(ts) }

\* results[i] is _score_one's GuessResult for tasks[i].
ResultLists(ts) ==
    { [i \in DOMAIN ts |-> GuessResult(ts[i], Judgment(g[i], 50))] :
        g \in [DOMAIN ts -> BuildGuesses] }

InitBuild ==
    /\ gTasks \in BuildTaskLists
    /\ gResults \in ResultLists(gTasks)
    /\ gOut = <<>>
    /\ ParseIdle
    /\ BackendIdle
    /\ ScoreIdle
    /\ LlamaIdle
    /\ FolderIdle
    /\ LinesIdle

Build ==
    /\ gTasks # <<>>
    /\ gOut = <<>>
    /\ gOut' = <<[exc |-> BuildRaises(gResults, gTasks),
                  value |-> IF BuildRaises(gResults, gTasks) # "" THEN <<>>
                            ELSE <<_build_result(gResults, gTasks)>>]>>
    /\ UNCHANGED <<gTasks, gResults, parseVars, backendVars, scoreVars,
                   llamaVars, folderVars, linesVars>>

NextBuild == Build

SpecBuild == InitBuild /\ [][NextBuild]_vars

(***************************************************************************)
(* LlamaCppBackend.complete called from several threads on one instance.   *)
(* The model handle is not thread-safe: it answers the request it was      *)
(* given last.                                                             *)
(***************************************************************************)
MaxCallers == 2

Callers == DOMAIN lPc

\* The text the model produces for the prompt of caller t.
AnswerTo(t) == JsonText(Obj(Str("a"), Num(t), <<>>))

\* with self._lock: a caller gets past it only while no one holds it.
LockFree(holder) == holder = 0

InitLlama ==
    /\ \E n \in 1..MaxCallers :
          /\ lPc = [t \in 1..n |-> "idle"]
          /\ lPrompt = [t \in 1..n |-> 0]
          /\ lOut = [t \in 1..n |-> <<>>]
    /\ lLock = 0
    /\ lHandle = 0
    /\ ParseIdle
    /\ BackendIdle
    /\ ScoreIdle
    /\ BuildIdle
    /\ FolderIdle
    /\ LinesIdle

\* A thread calls complete(prompt).
LlamaCall(t) ==
    /\ lPc[t] = "idle"
    /\ \E len \in PromptLens : lPrompt' = [lPrompt EXCEPT ![t] = len]
    /\ lPc' = [lPc EXCEPT ![t] = "called"]
    /\ UNCHANGED <<lLock, lHandle, lOut, parseVars, backendVars, scoreVars,
                   buildVars, folderVars, linesVars>>

\* The length guard: return "" without touching the lock, or go on to it.
LlamaGuard(t) ==
    /\ lPc[t] = "called"
    /\ IF (lPrompt[t] \div 3) + max_tokens > n_ctx
       THEN /\ lOut' = [lOut EXCEPT ![t] = <<LlamaCppComplete(lPrompt[t], "ok", EmptyText)>>]
            /\ lPc' = [lPc EXCEPT ![t] = "done"]
       ELSE /\ lPc' = [lPc EXCEPT ![t] = "waiting"]
            /\ lOut' = lOut
    /\ UNCHANGED <<lPrompt, lLock, lHandle, parseVars, backendVars, scoreVars,
                   buildVars, folderVars, linesVars>>

\* The thread enters the with block and starts create_chat_completion.
LlamaAcquire(t) ==
    /\ lPc[t] = "waiting"
    /\ LockFree(lLock)
    /\ lLock' = t
    /\ lHandle' = t
    /\ lPc' = [lPc EXCEPT ![t] = "inference"]
    /\ UNCHANGED <<lPrompt, lOut, parseVars, backendVars, scoreVars,
                   buildVars, folderVars, linesVars>>

\* create_chat_completion returns or raises; the with block releases the
\* lock either way, and complete() returns the content or lets the
\* exception out.
LlamaInferenceEnds(t) ==
    /\ lPc[t] = "inference"
    /\ \E ev \in TransportEvents("llamacpp") :
          lOut' = [lOut EXCEPT ![t] = <<LlamaCppComplete(lPrompt[t], ev, AnswerTo(lHandle))>>]
    /\ lLock' = IF lLock = t THEN 0 ELSE lLock
    /\ lHandle' = IF lHandle = t THEN 0 ELSE lHandle
    /\ lPc' = [lPc EXCEPT ![t] = "done"]
    /\ UNCHANGED <<lPrompt, parseVars, backendVars, scoreVars, buildVars, folderVars, linesVars>>

NextLlama ==
    \/ \E t \in Callers : LlamaCall(t)
    \/ \E t \in Callers : LlamaGuard(t)
    \/ \E t \in Callers : LlamaAcquire(t)
    \/ \E t \in Callers : LlamaInferenceEnds(t)

SpecLlama == InitLlama /\ [][NextLlama]_vars

(***************************************************************************)
(* FileToFolderCheck.extract on a directory tree.  A path relative to the  *)
(* target is the sequence of its parts; <<>> is the target itself, which  *)
(* the code writes ".".  The order of the task list and of a candidate    *)
(* list is left out: both are sets here.                                   *)
(***************************************************************************)
MaxEntries == 4
MaxDepth == 3

\* The names an entry of the tree can have.
Names == {"a", "b", "g.pyc", ".h", "__pycache__"}

\* PythonLanguage.ignore_dirs and ignore_suffixes.
ignore_dirs == {"__pycache__"}
ignore_suffixes == {".pyc"}

\* name.startswith(".")  and  name.endswith(s), on the names above.
StartsWithDot(name) == name \in {".h"}
EndsWith(name, suffix) == suffix = ".pyc" /\ name \in {"g.pyc"}

_should_ignore(name) ==
    \/ StartsWithDot(name)
    \/ name \in ignore_dirs
    \/ \E sfx \in ignore_suffixes : EndsWith(name, sfx)

\* _skip_dir: a part that starts with "." or is one of ignore_dirs.
_skip_dir(p) == \E i \in DOMAIN p : StartsWithDot(p[i]) \/ p[i] \in ignore_dirs

Root == <<>>
Entries == fsDirs \cup fsFiles
Parent(p) == SubSeq(p, 1, Len(p) - 1)
Name(p) == p[Len(p)]

\* dirpath.iterdir()
IterDir(d) == {e \in Entries : Parent(e) = d}

\* The folders iterdir() yields that are directories and not ignored.
KeptDirs(d) == {e \in IterDir(d) : e \in fsDirs /\ ~_should_ignore(Name(e))}

_neighborhood(folder_rel) ==
    IF folder_rel = Root THEN {Root} \cup KeptDirs(Root)
    ELSE KeptDirs(Parent(folder_rel)) \cup {Parent(folder_rel)}

\* children: the names under a folder that are not ignored.
Children(d) == {Name(e) : e \in {x \in IterDir(d) : ~_should_ignore(Name(x))}}

\* folder_children: the folders walked that have 2 or more children, with
\* the target itself.
FolderChildren ==
    {d \in fsDirs : ~_skip_dir(d) /\ Cardinality(Children(d)) >= 2}
        \cup {d \in {Root} : Cardinality(Children(d)) >= 2}

extract ==
    {Task(child, folder, _neighborhood(folder)) :
        <<child, folder>> \in
            {cf \in Names \X FolderChildren :
                /\ cf[1] \in Children(cf[2])
                /\ Cardinality(_neighborhood(cf[2])) >= 2}}

\* The paths an entry can be created at: a name under the target or under
\* one of its folders.
Paths == {Append(d, n) : d \in {x \in {Root} \cup fsDirs : Len(x) < MaxDepth}, n \in Names}

InitFolder ==
    /\ fsDirs = {}
    /\ fsFiles = {}
    /\ fTasks = <<>>
    /\ ParseIdle
    /\ BackendIdle
    /\ ScoreIdle
    /\ BuildIdle
    /\ LlamaIdle
    /\ LinesIdle

CanCreate(p) ==
    /\ fTasks = <<>>
    /\ Cardinality(Entries) < MaxEntries
    /\ p \notin Entries

\* The tree under the target grows by a folder or by a file.
Mkdir(p) ==
    /\ CanCreate(p)
    /\ fsDirs' = fsDirs \cup {p}
    /\ UNCHANGED <<fsFiles, fTasks, parseVars, backendVars, scoreVars, buildVars, llamaVars, linesVars>>

Touch(p) ==
    /\ CanCreate(p)
    /\ fsFiles' = fsFiles \cup {p}
    /\ UNCHANGED <<fsDirs, fTasks, parseVars, backendVars, scoreVars, buildVars, llamaVars, linesVars>>

\* check.extract(target)
Extract ==
    /\ fTasks = <<>>
    /\ fTasks' = <<extract>>
    /\ UNCHANGED <<fsDirs, fsFiles, parseVars, backendVars, scoreVars, buildVars, llamaVars, linesVars>>

NextFolder ==
    \/ \E p \in Paths : Mkdir(p)
    \/ \E p \in Paths : Touch(p)
    \/ Extract

SpecFolder == InitFolder /\ [][NextFolder]_vars

(***************************************************************************)
(* LineToFunctionCheck.extract on a source text.  A source is what the     *)
(* parser sees in it: whether it is valid Python and, per function        *)
(* definition in source order, the enclosing class ("" for none), the     *)
(* name and the number of statements the extractor keeps.                  *)
(***************************************************************************)
MaxFunctions == 2
MaxStatements == 2

FunctionNames == {"f", "g"}
ClassNames == {"", "C"}

FunctionDefs ==
    [cls : ClassNames, name : FunctionNames, stmts : 0..MaxStatements]

Sources ==
    {[parses |-> FALSE, defs |-> <<>>]} \cup
    {[parses |-> TRUE, defs |-> ds] :
        ds \in UNION {[1..n -> FunctionDefs] : n \in 0..MaxFunctions}}

\* name = f"{parent.name}.{node.name}" under a class, node.name otherwise.
QualifiedName(d) == <<d.cls, d.name>>

\* FunctionInfo(name, statements); a statement is named by its position.
FunctionInfo(d) ==
    [name |-> QualifiedName(d), statements |-> [k \in 1..d.stmts |-> k]]

\* PythonParser.extract_functions on a source that parses: ast.walk meets
\* the module's functions before the methods of its classes, and a
\* function without statements is left out.
extract_functions(src) ==
    LET kept == SelectSeq(src.defs, LAMBDA d : d.stmts > 0)
        top == SelectSeq(kept, LAMBDA d : d.cls = "")
        methods == SelectSeq(kept, LAMBDA d : d.cls # "")
        all == top \o methods
    IN  [i \in DOMAIN all |-> FunctionInfo(all[i])]

RECURSIVE TasksOf(_, _)
TasksOf(functions, all_names) ==
    IF functions = <<>> THEN <<>>
    ELSE LET func == Head(functions)
         IN  [k \in DOMAIN func.statements |->
                 Task(<<func.name, func.statements[k]>>, func.name, all_names)]
             \o TasksOf(Tail(functions), all_names)

\* LineToFunctionCheck.extract: ast.parse raises SyntaxError on a source
\* that is not valid Python, and nothing on the way catches it.
LineToFunctionExtract(src) ==
    IF ~src.parses THEN [exc |-> "SyntaxError", tasks |-> <<>>]
    ELSE LET functions == extract_functions(src)
             all_names == [i \in DOMAIN functions |-> functions[i].name]
         IN  IF Len(functions) < 2 THEN [exc |-> "", tasks |-> <<>>]
             ELSE [exc |-> "", tasks |-> TasksOf(functions, all_names)]

InitLines ==
    /\ sSource \in Sources
    /\ sOut = <<>>
    /\ ParseIdle
    /\ BackendIdle
    /\ ScoreIdle
    /\ BuildIdle
    /\ LlamaIdle
    /\ FolderIdle

ExtractLines ==
    /\ sOut = <<>>
    /\ sOut' = <<LineToFunctionExtract(sSource)>>
    /\ UNCHANGED <<sSource, parseVars, backendVars, scoreVars, buildVars,
                   llamaVars, folderVars>>

NextLines == ExtractLines

SpecLines == InitLines /\ [][NextLines]_vars

(***************************************************************************)
(* Claims about score().                                                   *)
(***************************************************************************)
Submitted == DOMAIN fut
ValidationErrors ==
    {Error("ValueError", "no_tasks"), Error("ValueError", "few_categories")}

\* Every oracle call so far returned text.
AllReplied == \A i \in DOMAIN resp : resp[i] # <<>> => resp[i][1].kind = "ok"

\* A cap and a worker count that random.sample and the pool accept.
UsableConfig == max_items >= 0 /\ workers >= 1

CompleteResult ==
    /\ outcome = ReturnedResult
    /\ ret # <<>>
    /\ Len(ret[1].results) = Len(tasks)
    /\ \A i \in DOMAIN results : results[i] # <<>>

\* C2: with an oracle that returns text, score() ends in one of three ways:
\* a complete ScoreResult with one result per dispatched task, the "no
\* classification tasks" error, or the "need at least 2 categories" error.
\* Stated for the caps and worker counts the pool accepts.
C2_OnlyThreeOutcomes ==
    (pc = "done" /\ AllReplied /\ UsableConfig) =>
        (outcome \in ValidationErrors \/ CompleteResult)

\* C3: a supplied callback is invoked exactly once per dispatched task, with
\* completed = 1, 2, ..., total in order and the same total every time.
\* Stated for runs in which every oracle call returns text.
C3_CallbackOncePerTask ==
    (on_result /\ AllReplied) =>
        /\ \A k \in 1..Len(calls) : calls[k] = [completed |-> k, total |-> Len(tasks)]
        /\ \A i \in DOMAIN cbCount : cbCount[i] <= 1
        /\ pc = "done" => \A i \in DOMAIN cbCount : cbCount[i] = 1

SameTask(r, t) ==
    /\ r.item = t.item
    /\ r.actual = t.actual
    /\ r.num_candidates = Len(t.candidates)

\* C4: no slot is written twice, a written slot i holds the result of the
\* task at position i, and when score() returns every slot was written once
\* and the returned list is the slots in task order.
C4_SlotsInTaskOrder ==
    /\ \A i \in DOMAIN results :
          /\ writes[i] <= 1
          /\ results[i] # <<>> => SameTask(results[i][1], tasks[i])
    /\ outcome = ReturnedResult =>
          /\ Len(ret[1].results) = Len(tasks)
          /\ \A i \in DOMAIN tasks :
                /\ writes[i] = 1
                /\ results[i] # <<>>
                /\ ret[1].results[i] = results[i][1]
                /\ SameTask(ret[1].results[i], tasks[i])

\* score() returned two results after the shuffle moved the second
\* extracted task to position 1.
C4_Witness ==
    /\ outcome = ReturnedResult
    /\ Len(tasks) = 2
    /\ tasks[1].item = 2
    /\ ret[1].results[1].item = 2

\* C5: the number of oracle calls in flight never exceeds the worker limit.
C5_InFlightBounded == Cardinality(InFlight) <= workers

\* Every worker is busy and a submitted task still waits in the queue.
C5_Witness ==
    /\ pc = "pool"
    /\ Cardinality(InFlight) = workers
    /\ \E i \in Submitted : fut[i] = "pending"

\* C6: an empty task list raises "no classification tasks"; a non-empty one
\* whose candidates have fewer than 2 distinct values raises "need at least
\* 2 categories"; one with 2 or more distinct candidates passes validation.
C6_Validation ==
    pc \in {"pool", "drain", "done"} =>
        /\ extracted = <<>> => outcome = Error("ValueError", "no_tasks")
        /\ (extracted # <<>> /\ Cardinality(CandidateUnion(extracted)) < 2) =>
              outcome = Error("ValueError", "few_categories")
        /\ Cardinality(CandidateUnion(extracted)) >= 2 => outcome \notin ValidationErrors

\* A non-empty task list with a single candidate value was rejected.
C6_Witness ==
    /\ pc = "done"
    /\ extracted # <<>>
    /\ Cardinality(CandidateUnion(extracted)) = 1
    /\ outcome = Error("ValueError", "few_categories")

EmptyReply(i) == resp[i] # <<>> /\ resp[i][1] = Returned(EmptyText)

\* C8 as written: the oracle is called exactly once per dispatched task, and
\* a task whose response is empty text gets guess "", confidence 0.0 and
\* correct = false.
C8_OnceAndEmptyIsWrong ==
    /\ \A i \in Submitted : oracleCalls[i] <= 1
    /\ pc = "done" => \A i \in Submitted : oracleCalls[i] = 1
    /\ \A i \in Submitted :
          (EmptyReply(i) /\ results[i] # <<>>) =>
              /\ results[i][1].guessed = Str("")
              /\ results[i][1].confidence = 0
              /\ ~results[i][1].correct

\* C8 amended: as above, with correct = false for every task whose actual
\* category is not itself the empty string.
C8_OnceAndEmptyIsWrongUnlessActualEmpty ==
    /\ \A i \in Submitted : oracleCalls[i] <= 1
    /\ pc = "done" => \A i \in Submitted : oracleCalls[i] = 1
    /\ \A i \in Submitted :
          (EmptyReply(i) /\ results[i] # <<>>) =>
              /\ results[i][1].guessed = Str("")
              /\ results[i][1].confidence = 0
              /\ tasks[i].actual # "" => ~results[i][1].correct

\* A finished run of two tasks, one of them answered with empty text for a
\* non-empty actual category.
C8_Witness ==
    /\ pc = "done"
    /\ Len(tasks) = 2
    /\ \A i \in Submitted : oracleCalls[i] = 1
    /\ \E i \in Submitted :
          /\ EmptyReply(i)
          /\ results[i] # <<>>
          /\ tasks[i].actual # ""

\* C9: a run that passes validation, and whose oracle calls all return,
\* finishes with completed = total and a ScoreResult of that many results.
\* Stated for the caps and worker counts the pool accepts.
C9_RunCompletes ==
    (pc = "done" /\ AllReplied /\ UsableConfig /\ outcome \notin ValidationErrors) =>
        /\ outcome = ReturnedResult
        /\ completed = Len(tasks)
        /\ ret # <<>>
        /\ Len(ret[1].results) = Len(tasks)

\* C10: the correct flag of every result is the exact equality of the
\* decoded guess and the task's actual category; an empty guess is never
\* correct for a non-empty actual.
C10_CorrectIsEquality ==
    \A i \in DOMAIN results :
        results[i] # <<>> =>
            LET r == results[i][1]
                jr == parse_judgment_json(resp[i][1].text)
            IN  /\ r.guessed = jr.guess
                /\ r.correct <=> (jr.guess = Str(tasks[i].actual))
                /\ (jr.guess = Str("") /\ tasks[i].actual # "") => ~r.correct

\* One result scored correct and one empty guess scored incorrect.
C10_Witness ==
    /\ \E i \in DOMAIN results : results[i] # <<>> /\ results[i][1].correct
    /\ \E i \in DOMAIN results :
          /\ results[i] # <<>>
          /\ results[i][1].guessed = Str("")
          /\ tasks[i].actual # ""
          /\ ~results[i][1].correct

(***************************************************************************)
(* C7                                                                      *)
(***************************************************************************)
\* C7: complete() of every backend returns text and never raises; on a
\* timeout, a process error or a transport error it returns "".
C7_CompleteNeverRaises ==
    bOut # <<>> =>
        /\ bOut[1].kind = "ok"
        /\ bEvent # "ok" => bOut[1].text = EmptyText

(***************************************************************************)
(* C1                                                                      *)
(***************************************************************************)
\* What the claim calls a failure, read off the text alone: the payload is
\* the think-stripped text, or the string under its "result" key, with the
\* fence removed; it fails when it is no JSON, no object, lacks "guess" or
\* "confidence", or holds a confidence that float() rejects.
DefectiveDict(j) ==
    \/ j.ty # "obj"
    \/ j.guess = Absent
    \/ j.conf = Absent
    \/ ~FloatOf(j.conf).ok

DefectivePayload(t) ==
    LET l == JsonLoads(FenceStrip(t))
    IN  ~l.ok \/ DefectiveDict(l.v)

Defective(raw) ==
    LET text == _strip_thinking(raw)
        l == JsonLoads(text)
    IN  IF l.ok /\ l.v.ty = "obj" /\ l.v.result # <<>>
        THEN \/ l.v.result[1].ty # "str"
             \/ DefectivePayload(l.v.result[1].txt[1])
        ELSE DefectivePayload(text)

\* C1: for every text parse_judgment_json returns and never raises, and on
\* every failure (no JSON, a missing field, a wrong type, a confidence that
\* is no float) it returns guess "" with confidence 0.0.
C1_NeverRaises ==
    pOut # <<>> =>
        /\ pOut[1].kind = "ok"
        /\ Defective(pText) => pOut[1] = EmptyJudgment


(***************************************************************************)
(* Claims about _build_result.                                             *)
(***************************************************************************)
Built == gOut # <<>> /\ gOut[1].exc = ""
BuiltResult == gOut[1].value[1]

\* The number of candidates offered for task i, and its correctness.
Offered(i) == Len(gTasks[i].candidates)
Correctness(i) == IF gResults[i].correct THEN 1 ELSE 0
AllCorrect == \A i \in DOMAIN gResults : gResults[i].correct

\* The mean of a sequence of fractions, as sum / length.
MeanOf(seq) == Frac(FracSum(seq).n, FracSum(seq).d * Len(seq))

\* (c - 1/k) / (1 - 1/k) = (c * k - 1) / (k - 1)
Rescaled(c, k) == Frac(c.n * k - c.d, c.d * (k - 1))

\* C11: the chance-adjusted score is the mean over the results of
\* (c_i - 1/k_i) / (1 - 1/k_i), k_i being the number of candidates offered
\* for task i, and the chance level is the mean of 1/k_i; a run whose
\* results are all correct has adjusted score 1, and k = 2 and k = 4 both
\* correct gives chance level 3/8.  The expression is defined for k_i >= 2.
C11_AdjustedIsMeanPerTask ==
    Built =>
        /\ (\A i \in DOMAIN gTasks : Offered(i) >= 2) =>
              /\ BuiltResult.adjusted_score =
                    MeanOf([i \in DOMAIN gTasks |->
                               Rescaled(Frac(Correctness(i), 1), Offered(i))])
              /\ BuiltResult.chance_level =
                    MeanOf([i \in DOMAIN gTasks |-> Frac(1, Offered(i))])
        /\ AllCorrect => BuiltResult.adjusted_score = Frac(1, 1)
        /\ (AllCorrect /\ Len(gTasks) = 2 /\ Offered(1) = 2 /\ Offered(2) = 4) =>
              BuiltResult.chance_level = Frac(3, 8)

\* A task with two candidates and one with four, both guessed correctly.
C11_Witness ==
    /\ Built
    /\ Len(gTasks) = 2
    /\ Offered(1) = 2
    /\ Offered(2) = 4
    /\ AllCorrect
    /\ BuiltResult.adjusted_score = Frac(1, 1)

SameK(k) == \A i \in DOMAIN gTasks : Offered(i) = k
Negative(x) == x.n < 0

DistinctActuals == Cardinality({gTasks[i].actual : i \in DOMAIN gTasks})
FallbackK(i) == IF Offered(i) >= 2 THEN Offered(i) ELSE DistinctActuals

\* C13: for a result whose candidate count is below 2 the chance is 1/k
\* with k the number of distinct categories of the run's tasks in place of
\* the task's own candidate count.
C13_FallbackToCategoryCount ==
    Built =>
        /\ BuiltResult.chance_level =
              MeanOf([i \in DOMAIN gTasks |-> Frac(1, FallbackK(i))])
        /\ BuiltResult.adjusted_score =
              MeanOf([i \in DOMAIN gTasks |->
                         Rescaled(Frac(Correctness(i), 1), FallbackK(i))])

\* A task with one candidate in a run of two categories whose tasks offer
\* three candidates between them.
C13_Witness ==
    /\ Built
    /\ \E i \in DOMAIN gTasks : Offered(i) < 2
    /\ DistinctActuals = 2
    /\ BuiltResult.num_categories = 3

\* The incorrect results with a non-empty guess, and their pairs.
Misses == {i \in DOMAIN gResults : ~gResults[i].correct /\ gResults[i].guessed # Str("")}
PairOf(i) == <<gResults[i].actual, gResults[i].guessed>>
EntryPair(e) == <<e.category_a, e.category_b>>
FirstMiss(pair) == CHOOSE i \in Misses : PairOf(i) = pair /\ \A j \in Misses : PairOf(j) = pair => i <= j

RECURSIVE SumCounts(_)
SumCounts(seq) == IF seq = <<>> THEN 0 ELSE Head(seq).count + SumCounts(Tail(seq))

\* C15: the confusion list has one entry per distinct (actual, guessed) pair
\* of an incorrect result with a non-empty guess, counting those results;
\* it is sorted by descending count, equal counts in first-occurrence
\* order; an all-correct run gives the empty list; the counts sum to the
\* number of incorrect results with a non-empty guess.
C15_ConfusionList ==
    Built =>
        LET cp == BuiltResult.confused_pairs
        IN  /\ {EntryPair(cp[j]) : j \in DOMAIN cp} = {PairOf(i) : i \in Misses}
            /\ \A j, l \in DOMAIN cp : j # l => EntryPair(cp[j]) # EntryPair(cp[l])
            /\ \A j \in DOMAIN cp :
                  cp[j].count = Cardinality({i \in Misses : PairOf(i) = EntryPair(cp[j])})
            /\ \A j, l \in DOMAIN cp :
                  j < l =>
                      \/ cp[j].count > cp[l].count
                      \/ /\ cp[j].count = cp[l].count
                         /\ FirstMiss(EntryPair(cp[j])) < FirstMiss(EntryPair(cp[l]))
            /\ AllCorrect => cp = <<>>
            /\ SumCounts(cp) = Cardinality(Misses)

\* The pair seen twice is listed before the pair that was seen first.
C15_Witness ==
    /\ Built
    /\ Len(BuiltResult.confused_pairs) = 2
    /\ BuiltResult.confused_pairs[1].count = 2
    /\ BuiltResult.confused_pairs[2].count = 1
    /\ FirstMiss(EntryPair(BuiltResult.confused_pairs[2])) = 1

(***************************************************************************)
(* Claims about sampling, shuffling and what they do to the aggregate.     *)
(***************************************************************************)
ExtractionOrder == FirstSeen([i \in DOMAIN extracted |-> extracted[i].actual], {})
ReturnedOf(cat) == {i \in DOMAIN ret[1].results : ret[1].results[i].actual = cat}

\* C14: category_scores has one entry per distinct actual category, in the
\* order in which the categories first appear in the extracted task list,
\* and each entry's score is correct/total over the results of its category.
\* Stated for runs that score every extracted task (no sampling).
C14_CategoriesInExtractionOrder ==
    (outcome = ReturnedResult /\ ~Sampling(extracted, max_items)) =>
        LET cs == ret[1].category_scores
        IN  /\ [j \in DOMAIN cs |-> cs[j].name] = ExtractionOrder
            /\ \A j \in DOMAIN cs :
                  /\ cs[j].total = Cardinality(ReturnedOf(cs[j].name))
                  /\ cs[j].correct =
                        Cardinality({i \in ReturnedOf(cs[j].name) : ret[1].results[i].correct})
                  /\ cs[j].total > 0 => cs[j].score = Frac(cs[j].correct, cs[j].total)

PassedValidation == pc # "start" /\ outcome \notin ValidationErrors

\* C17: sampling and shuffling never raise, whatever the cap, on a task list
\* that passed validation; with a cap of at least the task count every
\* extracted task is dispatched exactly once.
C17_SamplingNeverRaises ==
    PassedValidation =>
        /\ outcome # Error("ValueError", "sample_negative")
        /\ (max_items >= Len(extracted) /\ workers >= 1) =>
              /\ Len(tasks) = Len(extracted)
              /\ \A p \in DOMAIN extracted :
                    Cardinality({i \in DOMAIN tasks : tasks[i] = extracted[p]}) = 1

(***************************************************************************)
(* Claims about LlamaCppBackend.complete under concurrent callers.         *)
(***************************************************************************)
InInference == {t \in Callers : lPc[t] = "inference"}
EnteredLock(t) == lPc[t] = "inference" \/ (lPc[t] = "done" /\ lPrompt[t] \div 3 + max_tokens <= n_ctx)

\* C18: at most one inference call on the shared model handle is in
\* progress at any moment, and every caller that entered the lock and has
\* left complete() has its own response.
C18_SerializedAndAnswered ==
    /\ Cardinality(InInference) <= 1
    /\ \A t \in Callers :
          (EnteredLock(t) /\ lPc[t] = "done") => lOut[t] = <<Returned(AnswerTo(t))>>

(***************************************************************************)
(* Claims about the extraction strategies.                                 *)
(***************************************************************************)
Extracted == IF fTasks = <<>> THEN {} ELSE fTasks[1]
Folders == {Root} \cup fsDirs
NotIgnored(d) == d # Root => ~_should_ignore(Name(d))
Siblings(f) == {d \in fsDirs : d # f /\ Parent(d) = Parent(f) /\ NotIgnored(d)}
ChildFolders(f) == {d \in fsDirs : Parent(d) = f /\ NotIgnored(d)}

\* C19: the candidate set of a task whose actual is a non-root folder F is
\* exactly F, the non-ignored folders sharing F's parent, and F's parent;
\* for the root it is the root and its non-ignored direct child folders.
C19_LocalNeighborhood ==
    \A t \in Extracted :
        t.candidates =
            IF t.actual = Root THEN {Root} \cup ChildFolders(Root)
            ELSE {t.actual} \cup Siblings(t.actual) \cup {Parent(t.actual)}

\* C20: every task of child-to-folder extraction has its actual among its
\* candidates.
C20_ActualAmongCandidates == \A t \in Extracted : t.actual \in t.candidates

(***************************************************************************)
(* More claims about _build_result.                                        *)
(***************************************************************************)
FlaggedCorrect == {i \in DOMAIN gResults : gResults[i].correct}

\* C21: a returned ScoreResult has correct <= total, 0 <= score <= 1 and
\* score = correct / total, total being the number of results and correct
\* the number of results flagged correct.
C21_RawScore ==
    Built =>
        /\ BuiltResult.total = Len(gResults)
        /\ BuiltResult.correct = Cardinality(FlaggedCorrect)
        /\ BuiltResult.correct <= BuiltResult.total
        /\ BuiltResult.score.n * BuiltResult.total = BuiltResult.correct * BuiltResult.score.d
        /\ 0 <= BuiltResult.score.n
        /\ BuiltResult.score.n <= BuiltResult.score.d

\* Three results, one of them correct: the raw score is 1/3.
C21_Witness ==
    /\ Built
    /\ BuiltResult.total = 3
    /\ BuiltResult.correct = 1
    /\ BuiltResult.score = Frac(1, 3)

(***************************************************************************)
(* More claims about parse_judgment_json.                                  *)
(***************************************************************************)
Parsed == pOut # <<>> /\ pOut[1].kind = "ok"

\* The text once every thinking block is removed, and whether it is the
\* encoding of one JSON object.
Unwrapped == _strip_thinking(pText)
IsObject(t) == JsonLoads(t).ok /\ JsonLoads(t).v.ty = "obj"

\* The judgment a text decodes to: its guess and confidence when it is a
\* JSON object whose confidence converts, the empty judgment otherwise.
Decoded(t) ==
    IF IsObject(t) /\ FromDict(JsonLoads(t).v).kind = "ok"
    THEN FromDict(JsonLoads(t).v)
    ELSE Judgment(Str(""), 0)

\* C22: the thinking blocks go first; an object with a "result" key is
\* decoded from the fence-stripped value of "result", also when it has a
\* "guess" key; else an object with a "guess" key gives its guess and
\* confidence directly; else the fence-stripped text itself is decoded.
\* Stated for calls that return.
C22_Precedence ==
    Parsed =>
        LET obj == Unwrapped.body.j
        IN  IF IsObject(Unwrapped) /\ obj.result # <<>>
            THEN pOut[1] = Decoded(FenceStrip(obj.result[1].txt[1]))
            ELSE IF IsObject(Unwrapped) /\ obj.guess # Absent
            THEN /\ pOut[1].guess = obj.guess
                 /\ pOut[1].conf = FloatOf(GetConfidence(obj)).n
            ELSE pOut[1] = Decoded(FenceStrip(Unwrapped))

\* Behind a thinking block, an object with the guess "a" and a "result"
\* that holds a fenced object with the guess "b": the answer is "b".
C22_Witness ==
    /\ Parsed
    /\ pText.think = "closed"
    /\ pText.body.kind = "json"
    /\ pText.body.j.guess = Str("a")
    /\ pText.body.j.result # <<>>
    /\ pText.body.j.result[1].txt # <<>>
    /\ pText.body.j.result[1].txt[1].pre = "json"
    /\ pText.body.j.result[1].txt[1].body.j.guess = Str("b")
    /\ pOut[1].guess = Str("b")

(***************************************************************************)
(* Claims about what the extraction strategies return on thin targets.     *)
(***************************************************************************)
\* The distinct functions with statements that the source holds.
FunctionsWithStatements ==
    IF sSource.parses
    THEN {QualifiedName(sSource.defs[i]) :
             i \in {j \in DOMAIN sSource.defs : sSource.defs[j].stmts > 0}}
    ELSE {}

\* C23: statement-to-function extraction returns the empty list, without
\* raising, whenever the source holds fewer than 2 distinct functions with
\* statements.
C23_ThinTargetIsEmpty ==
    (sOut # <<>> /\ Cardinality(FunctionsWithStatements) < 2) =>
        /\ sOut[1].exc = ""
        /\ sOut[1].tasks = <<>>

(***************************************************************************)
(* More claims about child-to-folder extraction.                           *)
(***************************************************************************)
\* The entries directly under a folder whose names are not ignored.
KeptChildren(f) == {e \in fsDirs \cup fsFiles : Parent(e) = f /\ ~_should_ignore(Name(e))}
TasksFor(f, child) == {t \in Extracted : t.actual = f /\ t.item = child}

\* C25: a task's folder has at least 2 non-ignored children and at least 2
\* candidates, each non-ignored child of such a folder has exactly one
\* task, and no hidden, ignored or ignored-suffix entry is a task's item,
\* actual folder or candidate.
C25_OnlyKeptEntries ==
    \A t \in Extracted :
        /\ Cardinality(KeptChildren(t.actual)) >= 2
        /\ Cardinality(t.candidates) >= 2
        /\ \A e \in KeptChildren(t.actual) : Cardinality(TasksFor(t.actual, Name(e))) = 1
        /\ \E e \in KeptChildren(t.actual) : Name(e) = t.item
        /\ NotIgnored(t.actual)
        /\ \A c \in t.candidates : NotIgnored(c)

(***************************************************************************)
(* More claims about score().                                              *)
(***************************************************************************)
\* C26: on a task list that passed validation, whatever the cap, the k of
\* every result is at least 2 and the aggregator never divides by zero.
C26_ChanceAlwaysDefined ==
    (PassedValidation /\ yielded = DOMAIN fut /\ outcome # Error("ValueError", "max_workers")
        /\ \A i \in DOMAIN results : results[i] # <<>>) =>
        /\ \A i \in DOMAIN results : ChanceK(results[i][1], tasks) >= 2
        /\ outcome # Error("ZeroDivisionError", "")

\* No task reached the pool, no oracle call was made, no callback ran.
NothingDone ==
    /\ tasks = <<>>
    /\ fut = <<>>
    /\ oracleCalls = <<>>
    /\ resp = <<>>
    /\ calls = <<>>
    /\ cbCount = <<>>
    /\ cbThread = <<>>
    /\ cbRunning = {}
    /\ completed = 0

InsufficientMaterial(ts) == ts = <<>> \/ Cardinality(CandidateUnion(ts)) < 2

\* C27: an empty task list, or one with fewer than 2 candidates in all,
\* ends score() with the insufficient-material error whatever the cap and
\* the worker count, and then no prompt was built, no oracle call was made
\* and the callback was never invoked.
C27_ValidationComesFirst ==
    /\ (pc # "start" /\ InsufficientMaterial(extracted)) =>
            outcome \in ValidationErrors /\ pc = "done"
    /\ outcome \in ValidationErrors => NothingDone

\* A one-category list was refused although a negative cap and a worker
\* count of 0 would each have raised later.
C27_Witness ==
    /\ pc = "done"
    /\ outcome = Error("ValueError", "few_categories")
    /\ extracted # <<>>
    /\ max_items < 0
    /\ workers = 0
    /\ on_result

RECURSIVE SumTotals(_)
SumTotals(seq) == IF seq = <<>> THEN 0 ELSE Head(seq).total + SumTotals(Tail(seq))

RECURSIVE SumCorrects(_)
SumCorrects(seq) == IF seq = <<>> THEN 0 ELSE Head(seq).correct + SumCorrects(Tail(seq))

\* C30: in every returned ScoreResult each category_scores entry has
\* total >= 1 and correct <= total, no category has two entries, the
\* totals sum to ScoreResult.total and the correct counts sum to
\* ScoreResult.correct, with or without sampling.
C30_CategoriesPartitionResults ==
    outcome = ReturnedResult =>
        LET cs == ret[1].category_scores
        IN  /\ \A j \in DOMAIN cs : cs[j].total >= 1 /\ cs[j].correct <= cs[j].total
            /\ \A j, k \in DOMAIN cs : cs[j].name = cs[k].name => j = k
            /\ SumTotals(cs) = ret[1].total
            /\ SumCorrects(cs) = ret[1].correct
            /\ ret[1].total = Len(tasks)

\* Two categories returned, one result right and one wrong.
C30_Witness ==
    /\ outcome = ReturnedResult
    /\ Len(ret[1].category_scores) = 2
    /\ ret[1].correct = 1
    /\ ret[1].total = 2

\* A sampled run returned.
C30_SampledWitness ==
    /\ outcome = ReturnedResult
    /\ Sampling(extracted, max_items)
    /\ ret[1].total = 1

\* C28: after any call of score(), with or without a cap, the list that
\* check.extract returned holds the same tasks in the same order.
C28_ExtractListUntouched == pc # "start" => extractList = extracted

(***************************************************************************)
(* Claims about the thread that runs the progress callback.                *)
(***************************************************************************)
Invoked == {i \in DOMAIN cbCount : cbCount[i] > 0}

\* C24 as stated: the callback for a task is invoked by the pool worker
\* that completed the task.
C24_InvokedByWorker == \A i \in Invoked : cbThread[i] = "worker"

\* C24: the callback for a task is invoked by the thread that called
\* score(), in its loop over the completed futures, and never by a pool
\* worker, whatever the worker count.
C24_InvokedByCaller == \A i \in Invoked : cbThread[i] = "main"

\* Two workers, two tasks, both callbacks delivered.
C24_Witness ==
    /\ workers = 2
    /\ Cardinality(Invoked) = 2
    /\ \A i \in Invoked : cbThread[i] = "main"

\* C29: at most one callback invocation is executing at any moment, and a
\* task's callback runs only after the task's result is in its slot.
C29_CallbacksNeverOverlap ==
    /\ Cardinality(cbRunning) <= 1
    /\ \A i \in Invoked :
          /\ results[i] # <<>>
          /\ results[i][1].item = tasks[i].item

\* A callback is executing while two workers are free and another future
\* has finished and waits for the loop.
C29_Witness ==
    /\ workers = 2
    /\ Cardinality(cbRunning) = 1
    /\ \E j \in DOMAIN fut : fut[j] = "finished" /\ j \notin yielded

====
